---- MODULE Spec2Model ----
(***************************************************************************)
(* A model of the EarthquakeMap React component                            *)
(* (src/src/components/EarthquakeMap.tsx): the fetch of the USGS feed, the *)
(* normalisation of its features, the magnitude/search filter, the "load   *)
(* more" window of the table and the country label.                        *)
(*                                                                         *)
(* Strings the code splits, trims, lower-cases or searches are sequences   *)
(* of one-character strings.  Magnitudes are integers.  An optional value  *)
(* (undefined in the code) is a sequence of length 0 or 1.                 *)
(***************************************************************************)
EXTENDS Integers, Sequences, FiniteSets, TLC

----------------------------------------------------------------------------
(* Bounds of the model. *)

\* The total number of fetches issued in one behaviour.
MaxRequests == 3
\* The length of the long feed batch (more than two pages of the table).
LongLen == 21
\* The longest batch drawn from the curated features.
MaxBatch == 3
\* The number of fetches issued in one behaviour of the whole component.
MaxIssued == 2

----------------------------------------------------------------------------
(* The state of the component. *)

VARIABLES
    earthquakes,    \* the Earthquake list
    language,       \* "en" | "hi" | "te"
    showTable,      \* whether the table modal is open
    filter,         \* the magnitude range filter
    page,           \* the page count of the table
    selectedEq,     \* the selected Earthquake (<<>> for null)
    searchTerm,     \* the search text applied
    searchInput,    \* the text of the search box
    feed,           \* "daily" | "weekly"
    error,          \* the error message (<<>> for null)
    requests,       \* the fetches issued, in order: url, the language the
                    \* call closed over, and whether it is still in flight
    logged          \* the last error given to console.error (<<>> if none)

vars == <<earthquakes, language, showTable, filter, page, selectedEq,
          searchTerm, searchInput, feed, error, requests, logged>>

query == <<filter, page, searchTerm, searchInput, showTable, selectedEq>>
fetched == <<earthquakes, error, requests, logged>>

----------------------------------------------------------------------------
(* JavaScript string functions the code calls. *)

Unknown == <<"U", "n", "k", "n", "o", "w", "n">>

\* String.prototype.toLowerCase, on the letters the model's strings use.
LowerChar(c) ==
    CASE c = "A" -> "a" [] c = "J" -> "j" [] c = "L" -> "l" [] c = "M" -> "m"
      [] c = "O" -> "o" [] c = "P" -> "p" [] c = "S" -> "s" [] c = "T" -> "t"
      [] c = "U" -> "u" [] OTHER -> c

toLowerCase(s) == [i \in 1..Len(s) |-> LowerChar(s[i])]

IsSpace(c) == c = " "

RECURSIVE TrimStart(_)
TrimStart(s) ==
    IF s = <<>> THEN s
    ELSE IF IsSpace(Head(s)) THEN TrimStart(Tail(s)) ELSE s

RECURSIVE TrimEnd(_)
TrimEnd(s) ==
    IF s = <<>> THEN s
    ELSE IF IsSpace(s[Len(s)]) THEN TrimEnd(SubSeq(s, 1, Len(s) - 1)) ELSE s

\* String.prototype.trim
trim(s) == TrimEnd(TrimStart(s))

\* String.prototype.split(","): the segments between the commas; a string
\* without a comma is its own single segment.
RECURSIVE split(_)
split(s) ==
    IF \A i \in 1..Len(s) : s[i] # ","
    THEN <<s>>
    ELSE LET i == CHOOSE k \in 1..Len(s) :
                      s[k] = "," /\ \A j \in 1..(k - 1) : s[j] # ","
         IN  <<SubSeq(s, 1, i - 1)>> \o split(SubSeq(s, i + 1, Len(s)))

\* String.prototype.includes
includes(s, t) == \E i \in 0..(Len(s) - Len(t)) : SubSeq(s, i + 1, i + Len(t)) = t

\* Array.prototype.map(p => p.trim())
TrimAll(parts) == [i \in 1..Len(parts) |-> trim(parts[i])]

----------------------------------------------------------------------------
(* Languages, labels and the country tables. *)

Languages == {"en", "hi", "te"}
Feeds == {"daily", "weekly"}
Filters == {"all", "0-3", "3-5", "5-7", "7+"}

\* translations[language].earthquakeData: the label of the locale.
EarthquakeDataLabel(lang) ==
    CASE lang = "en" -> "earthquakeData.en"
      [] lang = "hi" -> "earthquakeData.hi"
      [] lang = "te" -> "earthquakeData.te"

Japan == <<"J", "a", "p", "a", "n">>
Peru == <<"P", "e", "r", "u">>
JP == <<"J", "P">>
PE == <<"P", "E">>

\* countries.getAlpha2Code(name, "en"): the code of an English country name,
\* or undefined (<<>>).
getAlpha2Code(name) ==
    CASE name = Japan -> <<JP>>
      [] name = Peru -> <<PE>>
      [] OTHER -> <<>>

\* countries.getName(code, language): the localized name, or undefined (<<>>)
\* when the locale's table has no entry for the code.
getName(code, lang) ==
    CASE code = JP /\ lang = "en" -> <<Japan>>
      [] code = JP /\ lang = "hi" -> <<<<"j", "a", "p", "a", "n">>>>
      [] code = JP /\ lang = "te" -> <<<<"j", "a", "p", "a", "n", "u">>>>
      [] code = PE /\ lang = "en" -> <<Peru>>
      [] code = PE /\ lang = "hi" -> <<<<"p", "e", "r", "u">>>>
      [] OTHER -> <<>>

----------------------------------------------------------------------------
(* The raw features of a fd response. *)

\* One GeoJSON feature.  geometry and properties are optional objects
\* (<<>> when missing); place and mag are optional inside properties.
Feature(id, geometry, place, mag) ==
    [id |-> id, geometry |-> geometry,
     properties |-> <<[place |-> place, mag |-> mag, time |-> id]>>]

Coordinates(lon, lat) == <<[coordinates |-> <<lon, lat>>]>>

Tokyo == <<"T", "o", "k", "y", "o", ",", " ", "J", "a", "p", "a", "n">>
Osaka == <<"O", "s", "a", "k", "a", ",", "J", "a", "p", "a", "n", " ">>
Lima == <<"1", "k", "m", " ", "S", ",", " ", "L", "i", "m", "a", ",", " ", "P", "e", "r", "u">>
Suva == <<"S", "u", "v", "a">>
Atlantis == <<"M", "u", ",", " ", "A", "t", "l">>
OffCoast == <<"O", "f", "f", " ", "J", "a", "p", "a", "n", ",", " ">>

\* Well-formed features: every required field present.
FTokyo == Feature(1, Coordinates(139, 35), <<Tokyo>>, <<4>>)
FLima == Feature(2, Coordinates(-77, -12), <<Lima>>, <<7>>)
FSuva == Feature(3, Coordinates(178, -18), <<Suva>>, <<2>>)
FAtlantis == Feature(4, Coordinates(0, 0), <<Atlantis>>, <<5>>)
FOffCoast == Feature(5, Coordinates(142, 38), <<OffCoast>>, <<3>>)
FOsaka == Feature(6, Coordinates(135, 34), <<Osaka>>, <<6>>)
\* place missing: the normaliser's "Unknown" default.
FNoPlace == Feature(7, Coordinates(10, 10), <<>>, <<8>>)
\* Malformed features: properties.mag missing; geometry missing; properties
\* missing.
FNoMag == Feature(8, Coordinates(140, 36), <<Tokyo>>, <<>>)
FNoGeometry == Feature(9, <<>>, <<Lima>>, <<5>>)
FNoProperties == [id |-> 10, geometry |-> Coordinates(1, 1), properties |-> <<>>]

----------------------------------------------------------------------------
(* The record normaliser: the body of data.features.map. *)

\* Whether the callback throws a TypeError on f: f.geometry.coordinates
\* and f.properties.place read a property of undefined when the object is
\* missing.
Throws(f) == f.geometry = <<>> \/ f.properties = <<>>

\* f.properties.place || "Unknown"
PlaceOf(f) ==
    IF f.properties[1].place = <<>> \/ f.properties[1].place[1] = <<>>
    THEN Unknown
    ELSE f.properties[1].place[1]

\* The country code of a place: the code of its last comma-delimited
\* segment when the place has more than one segment.
CountryCodeOf(place) ==
    LET parts == TrimAll(split(place))
    IN  IF Len(parts) > 1 THEN getAlpha2Code(parts[Len(parts)]) ELSE <<>>

\* The Earthquake built from a feature the callback does not throw on.
NormalizeFeature(f) ==
    [id |-> f.id,
     place |-> PlaceOf(f),
     mag |-> f.properties[1].mag,
     time |-> f.properties[1].time,
     lat |-> f.geometry[1].coordinates[2],
     lon |-> f.geometry[1].coordinates[1],
     country |-> CountryCodeOf(PlaceOf(f))]

\* data.features.map(...) on a list no element of which throws.
NormalizeAll(features) == [i \in 1..Len(features) |-> NormalizeFeature(features[i])]

----------------------------------------------------------------------------
(* The responses of the fd endpoint. *)

DailyUrl == "https://earthquake.usgs.gov/earthquakes/feed/v1.0/summary/all_day.geojson"
WeeklyUrl == "https://earthquake.usgs.gov/earthquakes/feed/v1.0/summary/all_week.geojson"

UrlOf(fd) == IF fd = "daily" THEN DailyUrl ELSE WeeklyUrl

\* A response: the fetch rejected (a network error), or an HTTP response
\* with its ok flag, its status text and the features of its body (<<>>
\* when the body has no features member, else the list in a 1-tuple).
NetworkError == [rejected |-> TRUE, ok |-> FALSE, statusText |-> "", features |-> <<>>]
HttpError(statusText) ==
    [rejected |-> FALSE, ok |-> FALSE, statusText |-> statusText, features |-> <<>>]
HttpOk(features) ==
    [rejected |-> FALSE, ok |-> TRUE, statusText |-> "OK", features |-> features]

StatusTexts == {"Internal Server Error", "Not Found"}

\* The long batch: LongLen well-formed features, magnitudes 0..8 in turn.
LongBatch ==
    [i \in 1..LongLen |->
        Feature(100 + i, Coordinates(i, i), <<IF i % 2 = 0 THEN Tokyo ELSE Lima>>, <<i % 9>>)]

\* The error messages the component displays, as the pieces concatenated.
NotAvailableMessage(lang) == <<EarthquakeDataLabel(lang), " not available.">>
FailedMessage(lang) == <<EarthquakeDataLabel(lang), " failed to load.">>

\* The message of the error the catch block logs.
StatusError(statusText) == <<"Failed to fetch data: ", statusText>>
FetchTypeError == <<"TypeError: Failed to fetch">>
MapTypeError == <<"TypeError: Cannot read properties of undefined">>

\* A catch block that sets the message and leaves the list as it is.
CaughtKeepsList(err, lang) ==
    [kind |-> "FetchFailed", error |-> <<EarthquakeDataLabel(lang), " failed to load.">>,
     earthquakes |-> earthquakes, logged |-> <<err>>]

\* The catch block: the error is logged, the message set, the list reset.
Caught(err, lang) ==
    [kind |-> "FetchFailed", error |-> FailedMessage(lang),
     earthquakes |-> <<>>, logged |-> <<err>>]

\* A fetchData without the check of data.features: an empty list maps to an
\* empty collection.
OutcomeEmptyIsSuccess(resp, lang) ==
    IF resp.rejected THEN Caught(FetchTypeError, lang)
    ELSE IF ~resp.ok THEN Caught(StatusError(resp.statusText), lang)
    ELSE IF resp.features = <<>> THEN Caught(MapTypeError, lang)
    ELSE IF \E i \in 1..Len(resp.features[1]) : Throws(resp.features[1][i])
    THEN Caught(MapTypeError, lang)
    ELSE [kind |-> "Success", error |-> <<>>,
          earthquakes |-> NormalizeAll(resp.features[1]), logged |-> <<>>]

\* fetchData from the completion of its fetch on: the branch taken and what
\* it sets.  The success branch sets no error and nothing is logged outside
\* the catch block (logged <<>>).
Outcome(resp, lang) ==
    IF resp.rejected THEN Caught(FetchTypeError, lang)
    ELSE IF ~resp.ok THEN Caught(StatusError(resp.statusText), lang)
    ELSE IF resp.features = <<>> \/ Len(resp.features[1]) = 0
    THEN [kind |-> "NoData", error |-> NotAvailableMessage(lang),
          earthquakes |-> <<>>, logged |-> <<>>]
    ELSE IF \E i \in 1..Len(resp.features[1]) : Throws(resp.features[1][i])
    THEN Caught(MapTypeError, lang)
    ELSE [kind |-> "Success", error |-> <<>>,
          earthquakes |-> NormalizeAll(resp.features[1]), logged |-> <<>>]

----------------------------------------------------------------------------
(* The query: flt, search and the visible window. *)

pageSize == 10

\* e.mag < k and e.mag >= k; a comparison with undefined is false.
MagLt(mag, k) == mag # <<>> /\ mag[1] < k
MagGe(mag, k) == mag # <<>> /\ mag[1] >= k

\* A switch whose "3-5" and "5-7" cases also keep their upper boundary.
InRangeClosed(e, flt) ==
    CASE flt = "0-3" -> MagLt(e.mag, 3)
      [] flt = "3-5" -> MagGe(e.mag, 3) /\ MagLt(e.mag, 6)
      [] flt = "5-7" -> MagGe(e.mag, 5) /\ MagLt(e.mag, 8)
      [] flt = "7+" -> MagGe(e.mag, 7)
      [] OTHER -> TRUE

\* The switch of applyFilter: whether the range filter keeps the event.
InRange(e, flt) ==
    CASE flt = "0-3" -> MagLt(e.mag, 3)
      [] flt = "3-5" -> MagGe(e.mag, 3) /\ MagLt(e.mag, 5)
      [] flt = "5-7" -> MagGe(e.mag, 5) /\ MagLt(e.mag, 7)
      [] flt = "7+" -> MagGe(e.mag, 7)
      [] OTHER -> TRUE

\* e.place.toLowerCase().includes(searchTerm.toLowerCase())
Matches(e, term) == includes(toLowerCase(e.place), toLowerCase(term))

\* An applyFilter whose search runs over the whole list, not the ranged one.
applyFilterSearchAll(eqs, flt, term) ==
    LET Range(e) == InRange(e, flt)
        Search(e) == Matches(e, term)
        filtered == SelectSeq(eqs, Range)
    IN  IF trim(term) # <<>> THEN SelectSeq(eqs, Search) ELSE filtered

applyFilter(eqs, flt, term) ==
    LET Range(e) == InRange(e, flt)
        Search(e) == Matches(e, term)
        filtered == SelectSeq(eqs, Range)
    IN  IF trim(term) # <<>> THEN SelectSeq(filtered, Search) ELSE filtered

\* A slice of one page: the rows of the earlier pages are discarded.
SliceOnePage(s, n) == SubSeq(s, n - pageSize + 1, IF n < Len(s) THEN n ELSE Len(s))

\* filteredData.slice(0, page * pageSize)
Slice(s, n) == SubSeq(s, 1, IF n < Len(s) THEN n ELSE Len(s))

\* A label that is "Unknown" for every place without a comma.
formatCountryNeedsComma(eq, lang) ==
    IF eq.country # <<>> /\ eq.country[1] # <<>>
    THEN IF getName(eq.country[1], lang) # <<>>
         THEN getName(eq.country[1], lang)[1]
         ELSE eq.country[1]
    ELSE LET parts == TrimAll(split(eq.place))
         IN  IF Len(parts) > 1 /\ parts[Len(parts)] # <<>>
             THEN parts[Len(parts)] ELSE Unknown

\* The country label of an event in a language.
formatCountry(eq, lang) ==
    IF eq.country # <<>> /\ eq.country[1] # <<>>
    THEN IF getName(eq.country[1], lang) # <<>>
              /\ getName(eq.country[1], lang)[1] # <<>>
         THEN getName(eq.country[1], lang)[1]
         ELSE eq.country[1]
    ELSE LET parts == TrimAll(split(eq.place))
         IN  IF parts[Len(parts)] # <<>> THEN parts[Len(parts)] ELSE Unknown

----------------------------------------------------------------------------
(* The derived data of a render, and the handlers. *)

filteredData == applyFilter(earthquakes, filter, searchTerm)
paginatedData == Slice(filteredData, page * pageSize)

\* A call of fetchData up to its await: the request it issues.
Request(f, l) == [url |-> UrlOf(f), language |-> l, pending |-> TRUE]

\* The state after the first render and its effect, which calls fetchData.
Init ==
    /\ earthquakes = <<>>
    /\ language = "en"
    /\ showTable = FALSE
    /\ filter = "all"
    /\ page = 1
    /\ selectedEq = <<>>
    /\ searchTerm = <<>>
    /\ searchInput = <<>>
    /\ feed = "weekly"
    /\ error = <<>>
    /\ requests = <<Request("weekly", "en")>>
    /\ logged = <<>>

\* A fetchData that closes over the feed of the render before the change.
FetchDataStaleFeed(f, l) ==
    /\ error' = <<>>
    /\ requests' = Append(requests, Request(feed, l))

\* The effect of [feed, language] after a render that changed one of them:
\* fetchData clears the error and issues its request.
FetchData(f, l) ==
    /\ error' = <<>>
    /\ requests' = Append(requests, Request(f, l))

\* A click on a feed button.  Setting the state to its current value renders
\* nothing and runs no effect.
SetFeed(f) ==
    /\ feed' = f
    /\ IF f # feed
       THEN FetchData(f, language)
       ELSE UNCHANGED <<error, requests>>
    /\ UNCHANGED <<earthquakes, language, logged, query>>

\* A choice in the language select.
SetLanguage(l) ==
    /\ language' = l
    /\ IF l # language
       THEN FetchData(feed, l)
       ELSE UNCHANGED <<error, requests>>
    /\ UNCHANGED <<earthquakes, feed, logged, query>>

\* The response of request i arrives and fetchData runs to its end.
FetchDone(i, resp) ==
    /\ requests[i].pending
    /\ requests' = [requests EXCEPT ![i].pending = FALSE]
    /\ LET o == Outcome(resp, requests[i].language)
       IN  /\ earthquakes' = o.earthquakes
           /\ error' = IF o.kind = "Success" THEN error ELSE o.error
           /\ logged' = IF o.logged # <<>> THEN o.logged[1] ELSE logged
    /\ UNCHANGED <<language, feed, query>>

\* Typing in the search box.
SetSearchInput(s) ==
    /\ searchInput' = s
    /\ UNCHANGED <<filter, page, searchTerm, showTable, selectedEq, language, feed, fetched>>

handleSearch ==
    /\ searchTerm' = searchInput
    /\ page' = 1
    /\ UNCHANGED <<filter, searchInput, showTable, selectedEq, language, feed, fetched>>

\* A choice in the filter select.
SetFilter(f) ==
    /\ filter' = f
    /\ page' = 1
    /\ UNCHANGED <<searchTerm, searchInput, showTable, selectedEq, language, feed, fetched>>

OpenTable ==
    /\ showTable' = TRUE
    /\ UNCHANGED <<filter, page, searchTerm, searchInput, selectedEq, language, feed, fetched>>

\* The close button of the modal.
CloseTable ==
    /\ showTable
    /\ showTable' = FALSE
    /\ UNCHANGED <<filter, page, searchTerm, searchInput, selectedEq, language, feed, fetched>>

\* The Load More button, rendered while rows remain.
LoadMore ==
    /\ showTable
    /\ page * pageSize < Len(filteredData)
    /\ page' = page + 1
    /\ UNCHANGED <<filter, searchTerm, searchInput, showTable, selectedEq, language, feed, fetched>>

\* A click on row k of the table.
SelectRow(k) ==
    /\ showTable
    /\ LET rows == paginatedData
       IN  k \in 1..Len(rows) /\ selectedEq' = <<rows[k]>>
    /\ showTable' = FALSE
    /\ UNCHANGED <<filter, page, searchTerm, searchInput, language, feed, fetched>>

----------------------------------------------------------------------------
(* The fetch lifecycle: feed and language changes, the feed answering the  *)
(* requests in flight in any order.                                        *)

\* The sequences of length 1..n over S.
Seqs(S, n) == UNION {[1..k -> S] : k \in 1..n}

\* The batches the feed answers with.
FeedBatches ==
    {<<FTokyo>>, <<FTokyo, FNoMag, FLima>>, <<FTokyo, FNoGeometry, FLima>>,
     <<FNoProperties, FLima>>}

FeedResponses ==
    {NetworkError} \cup {HttpError(t) : t \in StatusTexts}
        \cup {HttpOk(<<>>), HttpOk(<< <<>> >>)}
        \cup {HttpOk(<<b>>) : b \in FeedBatches}

\* The model stops issuing fetches after MaxRequests of them.
NextFetch ==
    \/ \E f \in Feeds : Len(requests) < MaxRequests /\ SetFeed(f)
    \/ \E l \in Languages : Len(requests) < MaxRequests /\ SetLanguage(l)
    \/ \E i \in DOMAIN requests, resp \in FeedResponses : FetchDone(i, resp)

SpecFetch == Init /\ [][NextFetch]_vars

----------------------------------------------------------------------------
(* The query over a loaded collection: filter, search, table and rows.     *)

\* The collections a completed fetch has loaded.
QueryFeatures == {FSuva, FNoMag}
MixedBatch == <<FTokyo, FLima, FSuva, FAtlantis, FOffCoast, FOsaka, FNoPlace, FNoMag>>
QueryBatches == Seqs(QueryFeatures, MaxBatch) \cup {MixedBatch, LongBatch}

QuerySearchInputs ==
    {<<>>, <<" ", " ">>, <<"J", "A", "P">>, <<",", " ", "p">>}

\* The state after the fetches issued so far have completed, the last one
\* with a batch: the first under "en", a second after a language change.
InitQuery ==
    /\ language \in Languages
    /\ earthquakes \in {NormalizeAll(b) : b \in QueryBatches}
    /\ showTable = FALSE
    /\ filter = "all"
    /\ page = 1
    /\ selectedEq = <<>>
    /\ searchTerm = <<>>
    /\ searchInput = <<>>
    /\ feed = "weekly"
    /\ error = <<>>
    /\ requests = IF language = "en"
                  THEN <<[Request("weekly", "en") EXCEPT !.pending = FALSE]>>
                  ELSE <<[Request("weekly", "en") EXCEPT !.pending = FALSE],
                         [Request("weekly", language) EXCEPT !.pending = FALSE]>>
    /\ logged = <<>>

NextQuery ==
    \/ \E s \in QuerySearchInputs : SetSearchInput(s)
    \/ handleSearch
    \/ \E f \in Filters : SetFilter(f)
    \/ OpenTable
    \/ CloseTable
    \/ LoadMore
    \/ \E k \in 1..LongLen : SelectRow(k)

SpecQuery == InitQuery /\ [][NextQuery]_vars

----------------------------------------------------------------------------
(* The whole component: every handler, over a small feed.                  *)

Responses == {HttpError("Internal Server Error"), HttpOk(<< <<>> >>), HttpOk(<<LongBatch>>)}
SearchInputs == {<<>>, <<"L", "i", "m">>}

\* The model stops issuing fetches after MaxIssued of them.
Next ==
    \/ \E f \in Feeds : Len(requests) < MaxIssued /\ SetFeed(f)
    \/ \E l \in Languages : Len(requests) < MaxIssued /\ SetLanguage(l)
    \/ \E i \in DOMAIN requests, resp \in Responses : FetchDone(i, resp)
    \/ \E s \in SearchInputs : SetSearchInput(s)
    \/ handleSearch
    \/ \E f \in {"all", "7+"} : SetFilter(f)
    \/ OpenTable
    \/ CloseTable
    \/ LoadMore
    \/ SelectRow(1)

Spec == Init /\ [][Next]_vars

----------------------------------------------------------------------------
(* Properties of the fetch lifecycle (SpecFetch). *)

AllDone == \A i \in DOMAIN requests : ~requests[i].pending

\* Whether a message, as its concatenated pieces, carries a text.
Carries(message, text) == \E k \in 1..Len(message) : message[k] = text

FailedMessages == {FailedMessage(l) : l \in Languages}
NotAvailableMessages == {NotAvailableMessage(l) : l \in Languages}

\* A response that ends the fetch with a network error or a non-success
\* HTTP status.
Failing(resp) == resp.rejected \/ ~resp.ok
\* A successful response whose feature list is missing or empty.
Featureless(resp) ==
    ~Failing(resp) /\ (resp.features = <<>> \/ resp.features[1] = <<>>)

\* C1: once a later fetch has been issued, the completion of an earlier
\* fetch (success, NoData or failure) changes neither the earthquake
\* collection nor the error message: only the latest fetch writes them.
C1_OnlyLatestFetchWrites ==
    [][\A i \in DOMAIN requests, resp \in FeedResponses :
          (i < Len(requests) /\ FetchDone(i, resp))
              => UNCHANGED <<earthquakes, error>>]_vars

\* C2, as claimed: a fetch that ends with a non-success HTTP status sets an
\* error message that carries the status text of the response, and a fetch
\* that fails resets the collection to empty.
C2_FailureCarriesStatusText ==
    [][\A i \in DOMAIN requests, resp \in FeedResponses :
          (Failing(resp) /\ FetchDone(i, resp))
              => /\ earthquakes' = <<>>
                 /\ ~resp.rejected => Carries(error', resp.statusText)]_vars

\* C2, amended: a fetch that ends with a network error or a non-success
\* HTTP status sets the "<label> failed to load." message of the language
\* the fetch was issued under, which carries no status text (the status
\* text is in the error logged to the console only), and resets the
\* collection to empty, whatever it held.
C2_FailureResetsList ==
    [][\A i \in DOMAIN requests, resp \in FeedResponses :
          (Failing(resp) /\ FetchDone(i, resp))
              => /\ earthquakes' = <<>>
                 /\ error' = <<EarthquakeDataLabel(requests[i].language), " failed to load.">>
                 /\ \A t \in StatusTexts : ~Carries(error', t)
                 /\ ~resp.rejected => Carries(logged', resp.statusText)]_vars

\* A failure under "hi" has been displayed and its status text logged.
C2_Witness ==
    /\ Len(requests) = 2
    /\ AllDone
    /\ requests[2].language = "hi"
    /\ error = FailedMessage("hi")
    /\ earthquakes = <<>>
    /\ logged = StatusError("Internal Server Error")

\* C3: a successful response with a missing or empty feature list sets the
\* "not available" message, which is none of the "failed to load" messages,
\* and resets the collection to empty (no record is normalised); the
\* completion of a response with at least one feature never sets the "not
\* available" message.
C3_NoDataIsDistinct ==
    [][\A i \in DOMAIN requests, resp \in FeedResponses :
          FetchDone(i, resp)
              => IF Featureless(resp)
                 THEN /\ error' = <<EarthquakeDataLabel(requests[i].language), " not available.">>
                      /\ error' \notin FailedMessages
                      /\ earthquakes' = <<>>
                      /\ logged' = logged
                 ELSE error' \in NotAvailableMessages => error' = error]_vars

\* The NoData message is displayed, in Telugu, and nothing was ever logged.
C3_Witness ==
    /\ AllDone
    /\ error = NotAvailableMessage("te")
    /\ earthquakes = <<>>
    /\ logged = <<>>

\* Whether a feature has every field the claim requires of it.
WellFormed(f) ==
    /\ f.geometry # <<>>
    /\ f.properties # <<>>
    /\ f.properties[1].mag # <<>>

\* C4: of a successful response with features, the collection is the
\* normalisation of the well-formed features, in input order: a feature
\* without properties.mag or without geometry is dropped, its siblings are
\* kept, and nothing is caught.
C4_MalformedFeatureDropped ==
    [][\A i \in DOMAIN requests, b \in FeedBatches :
          FetchDone(i, HttpOk(<<b>>))
              => /\ earthquakes' = NormalizeAll(SelectSeq(b, WellFormed))
                 /\ logged' = logged]_vars

\* C10: an error message is displayed only with an empty collection.
C10_ErrorOnlyWithEmptyList == error # <<>> => earthquakes = <<>>

----------------------------------------------------------------------------
(* Properties of the query (SpecQuery). *)

RangeFilters == {"0-3", "3-5", "5-7", "7+"}

Events == {earthquakes[k] : k \in 1..Len(earthquakes)}
Shown == {filteredData[k] : k \in 1..Len(filteredData)}

\* Whether the range filter alone selects the event.
Selects(flt, e) == applyFilter(<<e>>, flt, <<>>) = <<e>>

\* C5: every event of magnitude m >= 0 is selected by exactly one of the
\* filters 0-3, 3-5, 5-7 and 7+; it is selected by 0-3 iff m < 3, by 3-5
\* iff 3 <= m < 5, by 5-7 iff 5 <= m < 7 and by 7+ iff m >= 7; and the
\* events the current range filter lets through lie in its range.
C5_RangesPartition ==
    /\ \A e \in Events :
          (e.mag # <<>> /\ e.mag[1] >= 0)
              => /\ Cardinality({f \in RangeFilters : Selects(f, e)}) = 1
                 /\ Selects("0-3", e) <=> e.mag[1] < 3
                 /\ Selects("3-5", e) <=> (3 <= e.mag[1] /\ e.mag[1] < 5)
                 /\ Selects("5-7", e) <=> (5 <= e.mag[1] /\ e.mag[1] < 7)
                 /\ Selects("7+", e) <=> e.mag[1] >= 7
    /\ \A e \in Shown :
          /\ filter = "0-3" => (e.mag # <<>> /\ e.mag[1] < 3)
          /\ filter = "3-5" => (e.mag # <<>> /\ 3 <= e.mag[1] /\ e.mag[1] < 5)
          /\ filter = "5-7" => (e.mag # <<>> /\ 5 <= e.mag[1] /\ e.mag[1] < 7)
          /\ filter = "7+" => (e.mag # <<>> /\ e.mag[1] >= 7)

\* The 3-5 filter is applied to a list with magnitudes on both of its
\* boundaries and on both sides of them.
C5_Witness ==
    /\ filter = "3-5"
    /\ searchTerm = <<>>
    /\ \A m \in 2..5 : \E e \in Events : e.mag = <<m>>
    /\ \E e \in Shown : e.mag = <<3>>
    /\ \E e \in Shown : e.mag = <<4>>
    /\ Len(filteredData) < Len(earthquakes)

\* The magnitudes of a range filter.
Bucket(flt) ==
    CASE flt = "0-3" -> {m \in -9..99 : m <= 2}
      [] flt = "3-5" -> {3, 4}
      [] flt = "5-7" -> {5, 6}
      [] flt = "7+" -> {m \in -9..99 : m >= 7}

\* The range predicate and the search predicate of the current query.
RangeWants(e) == filter = "all" \/ (e.mag # <<>> /\ e.mag[1] \in Bucket(filter))
Blank(text) == \A k \in 1..Len(text) : text[k] = " "
SearchWants(e) ==
    \/ Blank(searchTerm)
    \/ \E off \in 0..(Len(e.place) - Len(searchTerm)) :
          \A j \in 1..Len(searchTerm) :
              LowerChar(e.place[off + j]) = LowerChar(searchTerm[j])

\* The positions of the collection the query wants, and the k-th of them.
Wanted == {i \in 1..Len(earthquakes) : RangeWants(earthquakes[i]) /\ SearchWants(earthquakes[i])}
Nth(S, k) == CHOOSE i \in S : Cardinality({j \in S : j <= i}) = k

\* C6: applyFilter returns exactly the events that satisfy the range
\* predicate and the search predicate, each once, in the order of the
\* collection; with filter "all" and an empty or whitespace-only search
\* text it returns the collection unchanged.
C6_FilterIsConjunction ==
    LET shown == filteredData
        wanted == Wanted
    IN  /\ Len(shown) = Cardinality(wanted)
        /\ \A k \in 1..Len(shown) : shown[k] = earthquakes[Nth(wanted, k)]
        /\ (filter = "all" /\ Blank(searchTerm)) => shown = earthquakes

\* A range filter and a search text are both applied, events pass both, and
\* each of the two rejects an event the other lets through.
C6_Witness ==
    /\ filter # "all"
    /\ ~Blank(searchTerm)
    /\ Len(filteredData) > 0
    /\ \E e \in Events : RangeWants(e) /\ ~SearchWants(e)
    /\ \E e \in Events : ~RangeWants(e) /\ SearchWants(e)

IsPrefix(s, t) == Len(s) <= Len(t) /\ \A k \in 1..Len(s) : s[k] = t[k]

\* C7: the rows shown at a page p >= 1 are the first min(p * 10,
\* |filtered|) elements of the filtered collection, so with collection,
\* filter and search text fixed the rows shown at every page reached
\* before the current one are a prefix, in content and order, of the rows
\* shown at the next page and of the rows shown now.
C7_WindowGrows ==
    LET all == filteredData
        now == paginatedData
        RowsAt(p) == Slice(all, p * pageSize)
    IN  /\ page >= 1
        /\ now = RowsAt(page)
        /\ \A p \in 1..page :
              /\ Len(RowsAt(p)) = (IF p * 10 < Len(all) THEN p * 10 ELSE Len(all))
              /\ IsPrefix(RowsAt(p), all)
              /\ IsPrefix(RowsAt(p), now)
              /\ p < page => IsPrefix(RowsAt(p), RowsAt(p + 1))

\* The third page of the table shows every row of the long list.
C7_Witness ==
    /\ showTable
    /\ page = 3
    /\ Len(earthquakes) > 20
    /\ paginatedData = earthquakes

\* The last comma-delimited segment of a place, trimmed: what follows its
\* last comma, or the whole place when it has no comma.
LastComma(place) ==
    LET commas == {k \in 1..Len(place) : place[k] = ","}
    IN  IF commas = {} THEN 0 ELSE CHOOSE k \in commas : \A j \in commas : j <= k
LocalityTail(place) == trim(SubSeq(place, LastComma(place) + 1, Len(place)))

\* The localized name of a code, or the code when the locale has none.
NameOrCode(code, lang) == IF getName(code, lang) = <<>> THEN code ELSE getName(code, lang)[1]

\* C8, as claimed: without a country code, formatCountry returns the
\* trimmed last segment of a place that has a comma and "Unknown" for a
\* place that has none; with a country code, the localized name, or the
\* code when the lookup yields nothing.
C8_UnknownWithoutComma ==
    \A e \in Events, l \in Languages :
        IF e.country = <<>>
        THEN formatCountry(e, l) =
                 (IF LastComma(e.place) > 0 THEN LocalityTail(e.place) ELSE Unknown)
        ELSE formatCountry(e, l) = NameOrCode(e.country[1], l)

\* C8, amended: without a country code, formatCountry returns the trimmed
\* last comma-delimited segment of place, which is the whole trimmed place
\* when place has no comma, and "Unknown" only when that segment is empty;
\* with a country code, the localized name, or the code when the lookup
\* yields nothing.
C8_LastSegmentOrUnknown ==
    \A e \in Events, l \in Languages :
        IF e.country = <<>>
        THEN formatCountry(e, l) =
                 (IF LocalityTail(e.place) # <<>> THEN LocalityTail(e.place) ELSE Unknown)
        ELSE formatCountry(e, l) = NameOrCode(e.country[1], l)

\* Telugu labels of a list with a place without a comma, a place with an
\* empty tail, an unresolved tail and a code the Telugu table lacks.
C8_Witness ==
    /\ language = "te"
    /\ showTable
    /\ \E e \in Events : e.country = <<>> /\ e.place = Suva /\ formatCountry(e, language) = Suva
    /\ \E e \in Events : e.country = <<>> /\ e.place = OffCoast /\ formatCountry(e, language) = Unknown
    /\ \E e \in Events : e.country = <<>> /\ e.place = Atlantis
    /\ \E e \in Events : e.country = <<PE>> /\ formatCountry(e, language) = PE
    /\ \E e \in Events : e.country = <<JP>> /\ formatCountry(e, language) # JP

----------------------------------------------------------------------------
(* Properties of the whole component (Spec). *)

\* C9: a step that changes the feed window or the language issues exactly
\* one request, to the endpoint of the window selected after the step; no
\* other step issues a request: not the completion of a fetch, whatever
\* its outcome, nor a change of the filter, the search text, the page or
\* the selected event.
C9_OneRequestPerChange ==
    [][IF feed' # feed \/ language' # language
       THEN requests' =
                Append(requests,
                       [url |-> IF feed' = "daily" THEN DailyUrl ELSE WeeklyUrl,
                        language |-> language', pending |-> TRUE])
       ELSE /\ Len(requests') = Len(requests)
            /\ \A i \in DOMAIN requests :
                  /\ requests'[i].url = requests[i].url
                  /\ requests'[i].language = requests[i].language]_vars

\* After a search, a Load More and a row click the window was changed to
\* "daily"; its one request, to the daily endpoint, has failed and no
\* further request was issued.
C9_Witness ==
    /\ feed = "daily"
    /\ Len(requests) = 2
    /\ requests[1].url = WeeklyUrl
    /\ requests[2].url = DailyUrl
    /\ AllDone
    /\ error \in FailedMessages
    /\ searchTerm # <<>>
    /\ page = 2
    /\ selectedEq # <<>>

====
